---------------------------- MODULE Spec2Model ----------------------------
(***************************************************************************)
(* A model of funds_analysis_dashboard.py: main() loads one uploaded       *)
(* spreadsheet (load_data, ensure_unique_columns) and runs one dashboard   *)
(* pass over it (create_dashboard: column detection, the column selectors  *)
(* of the sidebar, the filters, the KPIs and the tabs).                    *)
(*                                                                         *)
(* A column name is a sequence of one-character strings, so that           *)
(* str.strip, str.lower, the `in` substring test and the f-string          *)
(* suffixes are computed as Python computes them.  A Hebrew letter is one  *)
(* character, written "he:<letter name>".                                  *)
(*                                                                         *)
(* A column's cells are abstracted to the pandas dtype of the column and   *)
(* the mean of its numeric cells; NaN is the mean of a column without any  *)
(* numeric cell.  The filters and the aggregations work on the rows        *)
(* themselves, which the sheets of SpecFilter and SpecAggregate have.      *)
(***************************************************************************)
EXTENDS Integers, Sequences, FiniteSets, TLC

VARIABLES
    pc,              \* position of main(): start, loaded, no_table, ...
    uploaded_file,   \* the file as pd.read_excel would decode it
    df,              \* the DataFrame load_data returned and the pass works on
    cols,            \* the *_column locals of create_dashboard
    detected,        \* what "Detected Columns" showed (lines 368-373)
    selectbox,       \* options and default index of each column selector
    values,          \* the rows: of the uploaded sheet, then df.values
    selected,        \* the lists the three filter multiselects returned
    filtered_df,     \* the rows of filtered_df
    page,            \* the figures the pass has computed for the page
    loading          \* what load_data showed: its spinners and its errors

vars == <<pc, uploaded_file, df, cols, detected, selectbox,
          values, selected, filtered_df, page, loading>>

\* what the steps up to the column selectors leave alone
view == <<selected, filtered_df, page>>

(***************************************************************************)
(* Bounds of the model.                                                    *)
(***************************************************************************)
MaxCols == 3

(***************************************************************************)
(* Python values.                                                          *)
(***************************************************************************)
\* Python's None, where a column name is expected.
None == <<"<None>">>

\* float('nan'): the mean of a column without numeric cells.
NaN == -1

UpperChars == <<"A","B","C","D","E","F","G","H","I","J","K","L","M",
                "N","O","P","Q","R","S","T","U","V","W","X","Y","Z">>

LowerChars == <<"a","b","c","d","e","f","g","h","i","j","k","l","m",
                "n","o","p","q","r","s","t","u","v","w","x","y","z">>

DigitChars == <<"0","1","2","3","4","5","6","7","8","9">>

\* str.lower() of one character: a cased Latin letter is mapped, anything else
\* (digits, punctuation, Hebrew letters) is kept.
lower_of ==
    [c \in {UpperChars[i] : i \in 1..Len(UpperChars)} |->
        LowerChars[CHOOSE i \in 1..Len(UpperChars) : UpperChars[i] = c]]

lower_char(c) == IF c \in DOMAIN lower_of THEN lower_of[c] ELSE c

\* str.lower()
lower(s) == [i \in 1..Len(s) |-> lower_char(s[i])]

\* Python's `sub in s` on strings.
contains(sub, s) ==
    \E i \in 0..(Len(s) - Len(sub)) : SubSeq(s, i + 1, i + Len(sub)) = sub

\* str.strip(): leading and trailing whitespace removed.
RECURSIVE lstrip(_)
lstrip(s) == IF s # <<>> /\ Head(s) = " " THEN lstrip(Tail(s)) ELSE s

RECURSIVE rstrip(_)
rstrip(s) ==
    IF s # <<>> /\ s[Len(s)] = " " THEN rstrip(SubSeq(s, 1, Len(s) - 1)) ELSE s

strip(s) == rstrip(lstrip(s))

\* str(n) of a natural number.
RECURSIVE str(_)
str(n) ==
    IF n < 10 THEN <<DigitChars[n + 1]>>
    ELSE str(n \div 10) \o <<DigitChars[(n % 10) + 1]>>

\* f"{col}_{n}"
suffixed(col, n) == col \o <<"_">> \o str(n)

\* f'Column_{i}'
placeholder(i) == <<"C","o","l","u","m","n","_">> \o str(i)

\* len(df.columns) != len(set(df.columns))
has_duplicates(columns) ==
    Cardinality({columns[i] : i \in 1..Len(columns)}) # Len(columns)

\* the number of columns named `name`
occurrences(columns, name) ==
    Cardinality({i \in 1..Len(columns) : columns[i] = name})

(***************************************************************************)
(* ensure_unique_columns (lines 143-173).                                  *)
(***************************************************************************)
\* A variant of the loop that does not count: every further occurrence of a
\* name gets the suffix _1.
new_columns_uncounted(columns, seen, acc) ==
    [i \in 1..Len(columns) |->
        IF \E j \in 1..(i - 1) : columns[j] = columns[i]
        THEN suffixed(columns[i], 1) ELSE columns[i]]

\* The loop of lines 159-165: `seen` maps each name met so far to the number
\* of its further occurrences.
RECURSIVE new_columns(_, _, _)
new_columns(columns, seen, acc) ==
    IF columns = <<>> THEN acc
    ELSE LET col == Head(columns) IN
         IF col \in DOMAIN seen
         THEN new_columns(Tail(columns),
                          [seen EXCEPT ![col] = seen[col] + 1],
                          Append(acc, suffixed(col, seen[col] + 1)))
         ELSE new_columns(Tail(columns), (col :> 0) @@ seen, Append(acc, col))

\* `empty` is df.empty: no rows or no columns.
ensure_unique_columns(columns, empty) ==
    IF empty THEN columns
    ELSE IF has_duplicates(columns) THEN new_columns(columns, <<>>, <<>>)
    ELSE columns


(***************************************************************************)
(* The table.  cells[i] abstracts the cells of column i: the dtype pandas  *)
(* gives the column ("num", "obj" or "datetime"), the mean of its numeric  *)
(* cells (NaN without any) and whether every cell is missing.              *)
(***************************************************************************)
\* load_data's `return None`, and main's `df` before any upload.
NoneDf == [none |-> TRUE, columns |-> <<>>, cells |-> <<>>, has_rows |-> FALSE]

\* df.empty
empty(d) == ~d.has_rows \/ d.columns = <<>>

\* pd.api.types.is_numeric_dtype(df[col])
is_numeric_dtype(d, i) == d.cells[i].dtype = "num"

\* The engines loop of lines 179-196: openpyxl is tried first, xlrd after it
\* failed; "none" is a file neither can read.
engines == <<"openpyxl", "xlrd">>

\* pd.read_excel(uploaded_file, engine=engine) returns: the file is in a
\* format of that engine, or in one that both engines decode.
decodes(engine, file) == file.readable_by \in {engine, "both"}

\* A variant of the loop without the break: every engine is tried, and the
\* last one that decodes the file supplies the table.
read_excel_last(file, i, tried) ==
    LET able == {k \in i..Len(engines) : decodes(engines[k], file)}
    IN  [engine |-> IF able = {} THEN ""
                    ELSE engines[CHOOSE k \in able : \A j \in able : j <= k],
         spinner |-> tried \o SubSeq(engines, i, Len(engines))]

\* lines 182-190: the loop over the engines from engines[i] on, after the
\* spinners `tried`; it breaks at the first engine that decodes the file.
\* `engine` is that engine, "" when the loop ends with df still None.
RECURSIVE read_excel(_, _, _)
read_excel(file, i, tried) ==
    IF i > Len(engines) THEN [engine |-> "", spinner |-> tried]
    ELSE IF decodes(engines[i], file)
    THEN [engine |-> engines[i], spinner |-> Append(tried, engines[i])]
    ELSE read_excel(file, i + 1, Append(tried, engines[i]))

read_excel_ok(file) == read_excel(file, 1, <<>>).engine # ""

\* Nothing is shown before load_data runs.
no_loading == [spinner |-> <<>>, error |-> <<>>]

\* lines 192-196: the collected messages are shown only when no engine has
\* decoded the file, followed by the "Failed to read" message.
loaded_with(file) ==
    LET read == read_excel(file, 1, <<>>)
    IN  [spinner |-> read.spinner,
         error |-> IF read.engine # "" THEN <<>>
                   ELSE [i \in 1..Len(read.spinner) |->
                            <<"Error with", read.spinner[i]>>]
                        \o <<<<"Failed to read the Excel file with any available engine.">>>>]

\* line 200: df.columns.astype(str).str.strip()
stripped(columns) == [i \in 1..Len(columns) |-> strip(columns[i])]

\* line 203: enumerate() counts from 0.
named(columns) ==
    [i \in 1..Len(columns) |->
        IF columns[i] = <<>> THEN placeholder(i - 1) ELSE columns[i]]

\* line 209: dropna(how='all').dropna(axis=1, how='all') keeps the columns that
\* have a value in some row; a table without rows keeps none.
RECURSIVE kept(_, _, _)
kept(d, i, acc) ==
    IF i > Len(d.columns) THEN acc
    ELSE kept(d, i + 1,
              IF d.has_rows /\ ~d.cells[i].all_na THEN Append(acc, i) ELSE acc)

dropna(d) ==
    LET k == kept(d, 1, <<>>) IN
    [d EXCEPT !.columns = [j \in 1..Len(k) |-> d.columns[k[j]]],
              !.cells = [j \in 1..Len(k) |-> d.cells[k[j]]]]

\* line 213
looks_numeric(col) ==
    \/ contains(<<"N","A","V">>, col)
    \/ contains(<<"n","a","v">>, lower(col))
    \/ contains(<<"v","a","l","u","e">>, lower(col))
    \/ contains(<<"a","m","o","u","n","t">>, lower(col))

\* lines 212-217: pd.to_numeric(df[col], errors='coerce').  Under a name that
\* two columns share df[col] is a DataFrame, to_numeric raises and the bare
\* except leaves the columns as they were.
to_numeric(d) ==
    [d EXCEPT !.cells =
        [i \in 1..Len(d.columns) |->
            IF looks_numeric(d.columns[i]) /\ occurrences(d.columns, d.columns[i]) = 1
            THEN [d.cells[i] EXCEPT !.dtype = "num"]
            ELSE d.cells[i]]]

\* lines 198-206: the header normalisation.
normalised(file) ==
    ensure_unique_columns(named(stripped(file.columns)),
                          ~file.has_rows \/ file.columns = <<>>)

\* load_data (lines 175-223)
load_data(file) ==
    IF ~read_excel_ok(file) THEN NoneDf
    ELSE to_numeric(dropna([none |-> FALSE,
                            columns |-> normalised(file),
                            cells |-> file.cells,
                            has_rows |-> file.has_rows]))

(***************************************************************************)
(* create_dashboard: the start of a pass (lines 225-259).                  *)
(***************************************************************************)
\* safely_convert_to_string (lines 232-243, called at line 259 with every
\* object and datetime column in the list): df[col].astype(str) leaves an
\* object column of strings, in which no cell is missing any more.
safely_convert_to_string(d) ==
    [d EXCEPT !.cells =
        [i \in 1..Len(d.columns) |->
            IF d.cells[i].dtype \in {"obj", "datetime"}
            THEN [d.cells[i] EXCEPT !.dtype = "obj", !.all_na = FALSE]
            ELSE d.cells[i]]]

\* Lines 254-255 read df[col].dtype for every column.  Under a name that two
\* columns share df[col] is a DataFrame, which has no dtype: AttributeError,
\* caught by nobody.
raises_on_dtype(d) == has_duplicates(d.columns)

(***************************************************************************)
(* The rows of the table.  A cell is a number, a text or missing;          *)
(* values[r][i] is the cell of row r in column i.  The abstraction         *)
(* cells[i] of a sheet with rows is computed from them (cells_of).         *)
(***************************************************************************)
number(n) == [kind |-> "num", n |-> n, s |-> <<>>]

text(s) == [kind |-> "str", n |-> 0, s |-> s]

\* np.nan: what read_excel gives for an empty cell
nan == [kind |-> "nan", n |-> 0, s |-> <<>>]

\* pd.isna
isna(c) == c.kind = "nan"

\* df[col] of the rows `table`, col being column i
series(table, i) == [r \in 1..Len(table) |-> table[r][i]]

\* Series.sum(): missing cells are skipped, and the sum of none is 0.
RECURSIVE sum(_)
sum(column) ==
    IF column = <<>> THEN 0 ELSE Head(column).n + sum(Tail(column))

\* The dtype pandas infers for column i of a sheet (object as soon as one
\* cell is a text), and the mean of its numbers.
cells_of(sheet, i) ==
    LET column == series(sheet, i)
        numbers == {r \in 1..Len(column) : column[r].kind = "num"}
    IN  [dtype |-> IF \E r \in 1..Len(column) : column[r].kind = "str"
                   THEN "obj" ELSE "num",
         mean |-> IF numbers = {} THEN NaN
                  ELSE sum(column) \div Cardinality(numbers),
         all_na |-> \A r \in 1..Len(column) : isna(column[r])]

\* int(s) of a text of decimal digits
RECURSIVE int(_)
int(s) ==
    IF s = <<>> THEN 0
    ELSE 10 * int(SubSeq(s, 1, Len(s) - 1))
         + (CHOOSE d \in 0..9 : DigitChars[d + 1] = s[Len(s)])

\* pd.to_numeric(errors='coerce') of one cell: a text that is no number
\* becomes missing.
coerce(c) ==
    IF c.kind # "str" THEN c
    ELSE IF c.s # <<>> /\ \A i \in 1..Len(c.s) : \E d \in 1..10 : DigitChars[d] = c.s[i]
         THEN number(int(c.s))
         ELSE nan

\* load_data (lines 208-217) on the rows of the sheet: dropna(how='all')
\* drops the rows without any value, dropna(axis=1, how='all') the columns
\* without any, and the columns of line 213 are coerced.
loaded_rows(file, sheet) ==
    IF ~read_excel_ok(file) THEN <<>>
    ELSE LET d == [none |-> FALSE, columns |-> normalised(file),
                   cells |-> file.cells, has_rows |-> file.has_rows]
             k == kept(d, 1, <<>>)
             columns == dropna(d).columns
             live == SelectSeq(sheet, LAMBDA row : \E i \in 1..Len(row) : ~isna(row[i]))
         IN  [r \in 1..Len(live) |->
                 [j \in 1..Len(k) |->
                     IF looks_numeric(columns[j]) /\ occurrences(columns, columns[j]) = 1
                     THEN coerce(live[r][k[j]])
                     ELSE live[r][k[j]]]]

\* str(x) of a cell; str(np.nan) is 'nan'.
str_of(c) ==
    IF c.kind = "str" THEN c.s
    ELSE IF c.kind = "num" THEN str(c.n)
    ELSE <<"n","a","n">>

\* safely_convert_to_string on the rows: df[col].astype(str) in every object
\* and datetime column of d (lines 237-238).
astype_str(d, table) ==
    [r \in 1..Len(table) |->
        [i \in 1..Len(d.columns) |->
            IF d.cells[i].dtype \in {"obj", "datetime"}
            THEN text(str_of(table[r][i]))
            ELSE table[r][i]]]

(***************************************************************************)
(* create_dashboard: column detection (lines 261-365).                     *)
(***************************************************************************)
\* `any(f in col_lower for f in fragments)`
any_in(fragments, col) ==
    LET col_lower == lower(col)
    IN  \E k \in 1..Len(fragments) : contains(fragments[k], col_lower)

\* `for col in df.columns: if <test>: x = col; break`, x being None before;
\* matches[i] is the test's value on column i.
first_column(d, matches) ==
    IF \E i \in 1..Len(d.columns) : matches[i]
    THEN d.columns[CHOOSE i \in 1..Len(d.columns) :
                       matches[i] /\ \A j \in 1..(i - 1) : ~matches[j]]
    ELSE None

\* lines 275, 283
nav_names == << <<"n","a","v">>, <<"he:shin","he:vav","he:vav","he:yod">> >>

\* line 275
ils_names == << <<"i","l","s">>, <<"n","i","s">>, <<"he:shin","he:qof","he:lamed">> >>

\* line 291
value_names == << <<"v","a","l","u","e">>, <<"a","m","o","u","n","t">>,
    <<"he:samekh","he:kaf","he:vav","he:mem_sofit">>, <<"he:ayin","he:resh","he:kaf_sofit">> >>

\* line 300: "Assuming NAV values are typically large"
LargeMean == 1000

\* line 275: first priority, NAV in ILS/NIS/Shekels
is_nav_ils(col) == any_in(nav_names, col) /\ any_in(ils_names, col)

\* line 283: second priority, any column with NAV and numeric
is_nav_numeric(d, i) == any_in(nav_names, d.columns[i]) /\ is_numeric_dtype(d, i)

\* line 291: third priority, any value/amount column that is numeric
is_value_numeric(d, i) ==
    any_in(value_names, d.columns[i]) /\ is_numeric_dtype(d, i)

\* lines 298-300: last resort; NaN > 1000 is False.
is_large_numeric(d, i) ==
    /\ is_numeric_dtype(d, i)
    /\ d.cells[i].mean # NaN
    /\ d.cells[i].mean > LargeMean

\* A variant of the last resort: the numeric column with the largest mean.
nav_largest_mean(d) ==
    first_column(d, [i \in 1..Len(d.columns) |->
        /\ is_numeric_dtype(d, i)
        /\ \A j \in 1..Len(d.columns) :
              is_numeric_dtype(d, j) => d.cells[j].mean <= d.cells[i].mean])

\* lines 295-302
nav_last_resort(d) == first_column(d, [i \in 1..Len(d.columns) |-> is_large_numeric(d, i)])

\* A variant of the priorities: the value/amount rule ahead of the others.
detect_nav_value_first(d) ==
    LET first == first_column(d, [i \in 1..Len(d.columns) |-> is_nav_ils(d.columns[i])])
        second == first_column(d, [i \in 1..Len(d.columns) |-> is_nav_numeric(d, i)])
        third == first_column(d, [i \in 1..Len(d.columns) |-> is_value_numeric(d, i)])
    IN  IF third # None THEN third
        ELSE IF first # None THEN first
        ELSE IF second # None THEN second
        ELSE nav_last_resort(d)

\* lines 271-302
detect_nav(d) ==
    LET first == first_column(d, [i \in 1..Len(d.columns) |-> is_nav_ils(d.columns[i])])
        second == first_column(d, [i \in 1..Len(d.columns) |-> is_nav_numeric(d, i)])
        third == first_column(d, [i \in 1..Len(d.columns) |-> is_value_numeric(d, i)])
    IN  IF first # None THEN first
        ELSE IF second # None THEN second
        ELSE IF third # None THEN third
        ELSE nav_last_resort(d)

\* line 307
geography_names ==
    << <<"c","o","u","n","t","r","y">>, <<"g","e","o","g","r","a","p","h","y">>,
        <<"r","e","g","i","o","n">>, <<"he:mem","he:dalet","he:yod","he:nun","he:he">>,
        <<"he:alef","he:zayin","he:vav","he:resh">> >>

\* line 317
strategy_names ==
    << <<"s","t","r","a","t","e","g","y">>, <<"t","y","p","e">>, <<"c","a","t","e","g",
        "o","r","y">>,
        <<"he:alef","he:samekh","he:tet","he:resh","he:tet","he:gimel","he:yod","he:he">>,
        <<"he:samekh","he:vav","he:gimel">> >>

\* line 328
characteristic_names ==
    << <<"he:mem","he:alef","he:pe","he:yod","he:yod","he:nun_sofit">>,
        <<"c","h","a","r","a","c","t","e","r","i","s","t","i","c">>, <<"f","e","a","t",
        "u","r","e">>,
        <<"a","t","t","r","i","b","u","t","e">> >>

\* line 335
fund_names == << <<"f","u","n","d">>, <<"n","a","m","e">>, <<"he:qof","he:resh","he:nun_sofit">>,
    <<"he:shin","he:mem_sofit">> >>

\* line 342
currency_names == << <<"c","u","r","r","e","n","c","y">>,
    <<"he:mem","he:tet","he:bet","he:ayin">> >>

\* line 349
valuation_names == << <<"v","a","l","u","a","t","i","o","n">>, <<"a","g","e","n","t">>,
    <<"he:shin","he:ayin","he:resh","he:vav","he:kaf_sofit">> >>

\* line 356
year_names == << <<"y","e","a","r">>, <<"d","a","t","e">>, <<"he:shin","he:nun","he:he">>,
    <<"he:tav","he:alef","he:resh","he:yod","he:kaf_sofit">> >>

\* line 363
gp_names == << <<"g","p">>, <<"g","e","n","e","r","a","l"," ","p","a","r","t","n","e","r">>,
    <<"m","a","n","a","g","e","r">>, <<"he:mem","he:nun","he:he","he:lamed">> >>

\* line 312: 'Strategy'
Strategy == <<"S","t","r","a","t","e","g","y">>

\* line 323: the Hebrew name of the main characteristic column
MainCharacteristic == <<"he:mem","he:alef","he:pe","he:yod","he:yod","he:nun_sofit"," ",
        "he:ayin","he:yod","he:qof","he:resh","he:yod">>

\* `name in df.columns`
in_columns(name, d) == \E i \in 1..Len(d.columns) : d.columns[i] = name

\* A variant of the keyword loops without `break`: the last match wins.
by_keyword_last(d, fragments) ==
    IF \E i \in 1..Len(d.columns) : any_in(fragments, d.columns[i])
    THEN d.columns[CHOOSE i \in 1..Len(d.columns) :
                       /\ any_in(fragments, d.columns[i])
                       /\ \A j \in (i + 1)..Len(d.columns) :
                             ~any_in(fragments, d.columns[j])]
    ELSE None

\* the keyword loops (lines 305-309, 315-319, 326-330, 333-365)
by_keyword(d, fragments) ==
    first_column(d, [i \in 1..Len(d.columns) |-> any_in(fragments, d.columns[i])])

\* A variant without the exact-name test: the keyword loop alone.
keyword_without_exact(d, exact, fragments) ==
    first_column(d, [i \in 1..Len(d.columns) |-> any_in(fragments, d.columns[i])])

\* lines 311-319 and 321-330: the exact name first, then the keyword loop
exact_then_keyword(d, exact, fragments) ==
    IF in_columns(exact, d) THEN exact ELSE by_keyword(d, fragments)

\* lines 262-269 and 322
no_columns ==
    [nav_column |-> None, geography_column |-> None, strategy_column |-> None,
     main_characteristic_column |-> None, fund_name_column |-> None,
     currency_column |-> None, valuation_agent_column |-> None,
     year_column |-> None, gp_column |-> None]

\* lines 261-365
detect_columns(d) ==
    [nav_column |-> detect_nav(d),
     geography_column |-> by_keyword(d, geography_names),
     strategy_column |-> exact_then_keyword(d, Strategy, strategy_names),
     main_characteristic_column |->
         exact_then_keyword(d, MainCharacteristic, characteristic_names),
     fund_name_column |-> by_keyword(d, fund_names),
     currency_column |-> by_keyword(d, currency_names),
     valuation_agent_column |-> by_keyword(d, valuation_names),
     year_column |-> by_keyword(d, year_names),
     gp_column |-> by_keyword(d, gp_names)]

(***************************************************************************)
(* create_dashboard: the column selectors (lines 375-425).                 *)
(***************************************************************************)
\* line 378
RECURSIVE numeric_from(_, _)
numeric_from(d, i) ==
    IF i > Len(d.columns) THEN <<>>
    ELSE IF is_numeric_dtype(d, i)
         THEN <<d.columns[i]>> \o numeric_from(d, i + 1)
         ELSE numeric_from(d, i + 1)

numeric_columns(d) == numeric_from(d, 1)

\* `x in options`
in_options(x, options) == \E i \in 1..Len(options) : options[i] = x

\* list.index(x), and Index.get_loc(x) of an index without duplicates: the
\* position of x, counted from 0.
index(options, x) ==
    (CHOOSE i \in 1..Len(options) :
        options[i] = x /\ \A j \in 1..(i - 1) : options[j] # x) - 1

\* lines 384-386, 395-397, 406-408, 417-419: 0 unless the detected column is
\* among the options.
default_index(options, column) ==
    IF in_options(column, options) THEN index(options, column) ELSE 0

\* A variant of the NAV selector that offers every column.
nav_options_all(d) == d.columns

\* A variant of the other selectors that offers the numeric columns only.
column_options_numeric(d) == numeric_columns(d)

\* line 390: options=numeric_columns
nav_options(d) == numeric_columns(d)

\* lines 401, 412, 423: options=df.columns
column_options(d) == d.columns

\* The four st.sidebar.selectbox calls, for the columns detected as `c`.
selectors(d, c) ==
    [nav |->
        [options |-> nav_options(d),
         index |-> default_index(nav_options(d), c.nav_column)],
     geography |->
        [options |-> column_options(d),
         index |-> default_index(column_options(d), c.geography_column)],
     strategy |->
        [options |-> column_options(d),
         index |-> default_index(column_options(d), c.strategy_column)],
     characteristic |->
        [options |-> column_options(d),
         index |-> default_index(column_options(d), c.main_characteristic_column)]]

\* No selector is shown before line 388.
no_selectors ==
    [nav |-> [options |-> <<>>, index |-> 0],
     geography |-> [options |-> <<>>, index |-> 0],
     strategy |-> [options |-> <<>>, index |-> 0],
     characteristic |-> [options |-> <<>>, index |-> 0]]

\* The option a selector shows before the user touches it.
default_option(box) == box.options[box.index + 1]

(***************************************************************************)
(* create_dashboard: the filters (lines 427-495).                          *)
(***************************************************************************)
\* the position of column `name` in d
loc(d, name) == index(d.columns, name) + 1

\* The characters of the cell values, in the order of their code points.
Chars == DigitChars \o UpperChars \o LowerChars

ord == [c \in {Chars[i] : i \in 1..Len(Chars)} |->
           CHOOSE i \in 1..Len(Chars) : Chars[i] = c]

\* Python's a < b on two strings
RECURSIVE str_lt(_, _)
str_lt(a, b) ==
    IF b = <<>> THEN FALSE
    ELSE IF a = <<>> THEN TRUE
    ELSE IF Head(a) = Head(b) THEN str_lt(Tail(a), Tail(b))
    ELSE ord[Head(a)] < ord[Head(b)]

\* a < b on two cells of one column: two numbers or two strings
lt(a, b) == IF a.kind = "num" THEN a.n < b.n ELSE str_lt(a.s, b.s)

\* sorted(items)
RECURSIVE sorted(_)
sorted(items) ==
    IF items = {} THEN <<>>
    ELSE LET first == CHOOSE x \in items : \A y \in items \ {x} : lt(x, y)
         IN  <<first>> \o sorted(items \ {first})

\* df[col].dropna().unique()
unique(column) == {column[r] : r \in 1..Len(column)} \ {nan}

\* 'All'
All == text(<<"A","l","l">>)

\* lines 431, 444, 456: ['All'] + sorted(df[col].dropna().unique().tolist())
filter_options(table, i) == <<All>> \o sorted(unique(series(table, i)))

\* What a multiselect can return: any of its options, none, several.
multiselect(options) == SUBSET {options[k] : k \in 1..Len(options)}

\* A variant of the filter that keeps the rows outside the selection.
notin_filter(table, i, selection) ==
    IF selection # {} /\ All \notin selection
    THEN SelectSeq(table, LAMBDA row : row[i] \notin selection)
    ELSE table

\* A variant of the filter that does not know 'All': every selection that is
\* not empty filters.
isin_always(table, i, selection) ==
    IF selection # {}
    THEN SelectSeq(table, LAMBDA row : row[i] \in selection)
    ELSE table

\* lines 470-471, 476-477, 483-484: a selection that is empty or holds 'All'
\* filters nothing; Series.isin is False on a missing cell.
isin_filter(table, i, selection) ==
    IF selection # {} /\ All \notin selection
    THEN SelectSeq(table, LAMBDA row : row[i] \in selection)
    ELSE table

\* lines 440, 452, 464 and the defaults of the multiselects
no_filters == [geography |-> {All}, strategy |-> {All}, characteristic |-> {All}]

(***************************************************************************)
(* create_dashboard: the KPIs and the tabs (lines 497-1086).  A quotient   *)
(* of two numbers is kept as the exact fraction num/den in lowest terms;   *)
(* numpy's x / 0 is inf (1/0 here) and its 0 / 0 is nan (0/0 here).        *)
(***************************************************************************)
RECURSIVE gcd(_, _)
gcd(a, b) == IF b = 0 THEN a ELSE gcd(b, a % b)

\* a / b, for a >= 0 and b >= 0
truediv(a, b) ==
    IF b = 0 THEN [num |-> IF a = 0 THEN 0 ELSE 1, den |-> 0]
    ELSE [num |-> a \div gcd(a, b), den |-> b \div gcd(a, b)]

\* the `else 0` of the guarded quotients
zero == [num |-> 0, den |-> 1]

\* x + y and x * y of two finite quotients
add(x, y) == truediv(x.num * y.den + y.num * x.den, x.den * y.den)

mul(x, y) == truediv(x.num * y.num, x.den * y.den)

\* the rows of `table` whose cell in column i is `value`
group(table, i, value) == SelectSeq(table, LAMBDA row : row[i] = value)

\* A variant of the grouping that keeps the largest NAV of each group in
\* place of the sum.
groupby_max(table, key, nav) ==
    LET keys == sorted(unique(series(table, key)))
    IN  [k \in 1..Len(keys) |->
            [key |-> keys[k],
             nav |-> LET of_key == series(group(table, key, keys[k]), nav)
                     IN  CHOOSE n \in {of_key[r].n : r \in 1..Len(of_key)} :
                             \A r \in 1..Len(of_key) : of_key[r].n <= n]]

\* table.groupby(key)[nav].sum().reset_index(): one entry per value of the key
\* column, in sorted order; a row whose key is missing is in no group.
groupby_sum(table, key, nav) ==
    LET keys == sorted(unique(series(table, key)))
    IN  [k \in 1..Len(keys) |->
            [key |-> keys[k], nav |-> sum(series(group(table, key, keys[k]), nav))]]

\* table.groupby(key).size().reset_index(name='Count')
groupby_size(table, key) ==
    LET keys == sorted(unique(series(table, key)))
    IN  [k \in 1..Len(keys) |->
            [key |-> keys[k], count |-> Len(group(table, key, keys[k]))]]

\* A variant of the order: as groupby leaves it, sorted by key.
unsorted(data) == data

\* data.sort_values(by=nav_column, ascending=False); entries of equal NAV
\* keep their order.
RECURSIVE sort_values(_)
sort_values(data) ==
    IF data = <<>> THEN <<>>
    ELSE LET top == CHOOSE i \in 1..Len(data) :
                       /\ \A j \in 1..Len(data) : data[j].nav <= data[i].nav
                       /\ \A j \in 1..(i - 1) : data[j].nav < data[i].nav
         IN  <<data[top]>>
             \o sort_values(SubSeq(data, 1, top - 1) \o SubSeq(data, top + 1, Len(data)))

\* lines 715-722: the merge of the sums with the counts, 'Average NAV', and
\* '% of Total NAV' before it is formatted.
merge(char_data, char_count, total_nav) ==
    [k \in 1..Len(char_data) |->
        LET count == (CHOOSE e \in {char_count[j] : j \in 1..Len(char_count)} :
                          e.key = char_data[k].key).count
        IN  [key |-> char_data[k].key,
             nav |-> char_data[k].nav,
             count |-> count,
             average |-> truediv(char_data[k].nav, count),
             pct |-> truediv(char_data[k].nav * 100, total_nav)]]

\* lines 1076-1077: ((data[nav] / total_nav) ** 2).sum() * 10000, 0 for no
\* entry; Series.sum() skips the nan of 0 / 0.
RECURSIVE squares(_, _)
squares(data, total_nav) ==
    IF data = <<>> THEN zero
    ELSE LET share == truediv(Head(data).nav, total_nav)
             rest == squares(Tail(data), total_nav)
         IN  IF share.den = 0 /\ share.num = 0 THEN rest
             ELSE IF share.den = 0 \/ rest.den = 0 THEN truediv(1, 0)
             ELSE add(mul(share, share), rest)

\* A variant of the index: the shares themselves are added, not their squares.
hhi_of_shares(data, total_nav) ==
    mul(truediv(sum([k \in 1..Len(data) |-> number(data[k].nav)]), total_nav),
        truediv(10000, 1))

hhi(data, total_nav) ==
    LET s == squares(data, total_nav)
    IN  IF s.den = 0 THEN s ELSE mul(s, truediv(10000, 1))

\* A variant without the replacement.
no_fallback(table, filtered) == filtered

\* lines 492-495: an empty filtered_df is replaced by a copy of df
fallback(table, filtered) == IF filtered = <<>> THEN table ELSE filtered

\* Nothing is computed before line 498.
no_page ==
    [warning |-> FALSE, raised |-> "", error |-> FALSE,
     total_nav |-> 0, total_investments |-> 0, avg_investment |-> zero,
     geo_data |-> <<>>, top_geography_pct |-> zero,
     strategy_data |-> <<>>, top_strategy_pct |-> zero,
     merged_data |-> <<>>, top_char_pct |-> zero,
     drilldown_type |-> "", drilldown_value |-> nan, subtotal_pct |-> zero,
     israel_pct |-> zero,
     top_geo_concentration |-> zero, top_strategy_concentration |-> zero,
     geo_hhi |-> zero, strategy_hhi |-> zero]

\* lines 497-524: the KPIs of the rows `shown`
kpis(shown, nav) ==
    LET total_nav == sum(series(shown, nav))
        total_investments == Len(shown)
    IN  [no_page EXCEPT
            !.total_nav = total_nav,
            !.total_investments = total_investments,
            !.avg_investment = IF total_investments > 0
                               THEN truediv(total_nav, total_investments)
                               ELSE zero]

\* lines 535-593, tab 1.  Grouping by the NAV column itself raises in
\* reset_index (ValueError: cannot insert, already exists), and iloc[0] of an
\* empty geo_data raises IndexError; nothing catches either.
tab1(p, shown, key, nav) ==
    LET geo_data == sort_values(groupby_sum(shown, key, nav))
    IN  IF key = nav THEN [p EXCEPT !.raised = "ValueError"]
        ELSE IF geo_data = <<>>
             THEN [p EXCEPT !.geo_data = geo_data, !.raised = "IndexError"]
        ELSE [p EXCEPT
                 !.geo_data = geo_data,
                 !.top_geography_pct = truediv(geo_data[1].nav * 100, p.total_nav)]

\* lines 596-655, tab 2
tab2(p, shown, key, nav) ==
    LET strategy_data == sort_values(groupby_sum(shown, key, nav))
    IN  IF key = nav THEN [p EXCEPT !.raised = "ValueError"]
        ELSE [p EXCEPT
                 !.strategy_data = strategy_data,
                 !.top_strategy_pct =
                     IF strategy_data # <<>> /\ p.total_nav > 0
                     THEN truediv(strategy_data[1].nav * 100, p.total_nav)
                     ELSE zero]

\* lines 657-773, tab 3: what raises inside the try is shown as an error in
\* place of the table and the insight.  reset_index raises when the key is the
\* NAV column; with a NAV column named 'Count' the merge of line 715 leaves no
\* column 'Count' (KeyError at line 716); with a NAV column named 'NAV (ILS)'
\* line 720 overwrites the sums with their formatted texts, and line 722
\* divides a text by total_nav (TypeError).
tab3(p, shown, key, nav, nav_column) ==
    LET char_data == sort_values(groupby_sum(shown, key, nav))
        char_count == groupby_size(shown, key)
    IN  IF \/ key = nav
           \/ nav_column = <<"C","o","u","n","t">>
           \/ nav_column = <<"N","A","V"," ","(","I","L","S",")">>
        THEN [p EXCEPT !.error = TRUE]
        ELSE [p EXCEPT
                 !.merged_data = sort_values(merge(char_data, char_count, p.total_nav)),
                 !.top_char_pct =
                     IF char_data # <<>> /\ p.total_nav > 0
                     THEN truediv(char_data[1].nav * 100, p.total_nav)
                     ELSE zero]

\* lines 488-773: the fallback, the KPIs and the first three tabs, up to the
\* first uncaught exception
aggregated(table, filtered, d, c) ==
    LET shown == fallback(table, filtered)
        nav == loc(d, c.nav_column)
        p0 == [kpis(shown, nav) EXCEPT !.warning = (filtered = <<>>)]
        p1 == tab1(p0, shown, loc(d, c.geography_column), nav)
        p2 == IF p1.raised # "" THEN p1
              ELSE tab2(p1, shown, loc(d, c.strategy_column), nav)
    IN  IF p2.raised # "" THEN p2
        ELSE tab3(p2, shown, loc(d, c.main_characteristic_column), nav, c.nav_column)

\* lines 790-792: ["No Data"], the options of a column without a value
NoDataOption == text(<<"N","o"," ","D","a","t","a">>)

\* the column of df that the choice of the "Drilldown By" radio reads
drilldown_column(c, drilldown_type) ==
    IF drilldown_type = "Geography" THEN c.geography_column
    ELSE IF drilldown_type = "Strategy" THEN c.strategy_column
    ELSE c.main_characteristic_column

\* lines 789-792, 810-813, 831-834:
\* sorted(df[column].dropna().unique().tolist()), taken of df, not of
\* filtered_df
drilldown_options(t, c, drilldown_type) ==
    LET options == sorted(unique(series(t.values,
                                        loc(t.df, drilldown_column(c, drilldown_type)))))
    IN  IF options = <<>> THEN <<NoDataOption>> ELSE options

\* lines 774-945, tab 4: the rows of df with the chosen value, and their
\* share of the total NAV of the filtered rows
tab4(p, t, c, drilldown_type, drilldown_value) ==
    LET drilldown_df ==
            IF drilldown_value = NoDataOption THEN <<>>
            ELSE group(t.values, loc(t.df, drilldown_column(c, drilldown_type)),
                       drilldown_value)
        subtotal_nav == sum(series(drilldown_df, loc(t.df, c.nav_column)))
    IN  [p EXCEPT
            !.drilldown_type = drilldown_type,
            !.drilldown_value = drilldown_value,
            !.subtotal_pct = IF drilldown_df # <<>> /\ p.total_nav > 0
                             THEN truediv(subtotal_nav * 100, p.total_nav)
                             ELSE zero]

\* line 955: 'Israel_Flag'
IsraelFlag == <<"I","s","r","a","e","l","_","F","l","a","g">>

\* line 997: 'Investment_Year'
InvestmentYear == <<"I","n","v","e","s","t","m","e","n","t","_","Y","e","a","r">>

\* line 955: 'Israel' if str(x).lower() in ['israel', <the Hebrew name>, 'isr',
\* 'il'] else 'International'
israel_flag(c) ==
    IF lower(str_of(c)) \in {<<"i","s","r","a","e","l">>, <<"he:yod","he:shin","he:resh","he:alef","he:lamed">>, <<"i","s","r">>, <<"i","l">>}
    THEN text(<<"I","s","r","a","e","l">>)
    ELSE text(<<"I","n","t","e","r","n","a","t","i","o","n","a","l">>)

\* line 997: pd.to_datetime(x, errors='coerce').dt.year of a text; a text of
\* four digits is a year, any other text of the model is no date.
year_of(c) ==
    IF Len(c.s) = 4 /\ coerce(c) # nan THEN coerce(c) ELSE nan

\* df[name] = column, in place: a new last column, or new cells under a name
\* that df has already.
assign(t, name, column, dtype) ==
    IF in_columns(name, t.df)
    THEN [df |-> [t.df EXCEPT !.cells[loc(t.df, name)] =
                     [dtype |-> dtype, mean |-> NaN, all_na |-> FALSE]],
          values |-> [r \in 1..Len(t.values) |->
                         [t.values[r] EXCEPT ![loc(t.df, name)] = column[r]]]]
    ELSE [df |-> [t.df EXCEPT
                     !.columns = Append(@, name),
                     !.cells = Append(@, [dtype |-> dtype, mean |-> NaN,
                                          all_na |-> FALSE])],
          values |-> [r \in 1..Len(t.values) |-> Append(t.values[r], column[r])]]

\* lines 947-1086, tab 5 and the portfolio overview, for the table t, the
\* columns c and the figures p of the tabs before: the table and the figures
\* it leaves.  df.groupby(x)[nav_column].sum().reset_index() raises when x is
\* the NAV column (lines 968, 981, 1013).
insights(t, c, p) ==
    LET nav == loc(t.df, c.nav_column)
        geography == series(t.values, loc(t.df, c.geography_column))
        t1 == assign(t, IsraelFlag,
                     [r \in 1..Len(geography) |-> israel_flag(geography[r])], "obj")
        year == IF c.year_column = None THEN <<>>
                ELSE series(t1.values, loc(t1.df, c.year_column))
        t2 == IF c.year_column # None
                  /\ t1.df.cells[loc(t1.df, c.year_column)].dtype = "obj"
              THEN assign(t1, InvestmentYear,
                          [r \in 1..Len(year) |-> year_of(year[r])], "num")
              ELSE t1
        israel_nav == sum(series(group(t2.values, loc(t2.df, IsraelFlag),
                                       text(<<"I","s","r","a","e","l">>)), nav))
    IN  IF c.nav_column \in {c.currency_column, c.valuation_agent_column}
        THEN [df |-> t1.df, values |-> t1.values,
              page |-> [p EXCEPT !.raised = "ValueError"]]
        ELSE IF c.nav_column = c.gp_column
        THEN [df |-> t2.df, values |-> t2.values,
              page |-> [p EXCEPT !.raised = "ValueError"]]
        ELSE [df |-> t2.df, values |-> t2.values,
              page |-> [p EXCEPT
                  !.israel_pct = truediv(israel_nav * 100, p.total_nav),
                  !.top_geo_concentration =
                      IF Len(p.geo_data) > 0
                      THEN truediv(p.geo_data[1].nav * 100, p.total_nav) ELSE zero,
                  !.top_strategy_concentration =
                      IF Len(p.strategy_data) > 0
                      THEN truediv(p.strategy_data[1].nav * 100, p.total_nav)
                      ELSE zero,
                  !.geo_hhi = hhi(p.geo_data, p.total_nav),
                  !.strategy_hhi = hhi(p.strategy_data, p.total_nav)]]

(***************************************************************************)
(* The steps of main() (lines 1085-1112).                                  *)
(***************************************************************************)
\* lines 1095-1097: df = load_data(uploaded_file)
LoadData ==
    /\ pc = "start"
    /\ df' = load_data(uploaded_file)
    /\ values' = loaded_rows(uploaded_file, values)
    /\ loading' = loaded_with(uploaded_file)
    /\ pc' = IF df'.none THEN "no_table" ELSE "loaded"
    /\ UNCHANGED <<uploaded_file, cols, detected, selectbox, view>>

\* lines 227-229: "No data available", return
NoData ==
    /\ pc = "loaded"
    /\ empty(df)
    /\ pc' = "no_data"
    /\ UNCHANGED <<uploaded_file, df, cols, detected, selectbox, values, view, loading>>

\* lines 254-255: the pass ends in an uncaught AttributeError
DtypeError ==
    /\ pc = "loaded"
    /\ ~empty(df)
    /\ raises_on_dtype(df)
    /\ pc' = "crashed"
    /\ UNCHANGED <<uploaded_file, df, cols, detected, selectbox, values, view, loading>>

\* lines 231-373: conversion of the grouping columns, detection, and the
\* "Detected Columns" of the sidebar
DetectColumns ==
    /\ pc = "loaded"
    /\ ~empty(df)
    /\ ~raises_on_dtype(df)
    /\ df' = safely_convert_to_string(df)
    /\ values' = astype_str(df, values)
    /\ cols' = detect_columns(df')
    /\ detected' = cols'
    /\ pc' = "detected"
    /\ UNCHANGED <<uploaded_file, selectbox, view, loading>>

\* A variant of the stop: the pass ends whenever no NAV column was detected.
NoNumeric_undetected ==
    /\ pc = "detected"
    /\ cols.nav_column = None
    /\ pc' = "no_numeric"
    /\ UNCHANGED <<uploaded_file, df, cols, detected, selectbox, values, view, loading>>

\* lines 378-381: "No numeric columns found in the data", return
NoNumeric ==
    /\ pc = "detected"
    /\ numeric_columns(df) = <<>>
    /\ pc' = "no_numeric"
    /\ UNCHANGED <<uploaded_file, df, cols, detected, selectbox, values, view, loading>>

\* lines 383-425: each selectbox returns the option the user has picked, any
\* of its options
SelectColumns ==
    /\ pc = "detected"
    /\ numeric_columns(df) # <<>>
    /\ selectbox' = selectors(df, cols)
    /\ \E n \in 1..Len(selectbox'.nav.options),
          g \in 1..Len(selectbox'.geography.options),
          s \in 1..Len(selectbox'.strategy.options),
          m \in 1..Len(selectbox'.characteristic.options) :
          cols' = [cols EXCEPT
                     !.nav_column = selectbox'.nav.options[n],
                     !.geography_column = selectbox'.geography.options[g],
                     !.strategy_column = selectbox'.strategy.options[s],
                     !.main_characteristic_column =
                         selectbox'.characteristic.options[m]]
    /\ pc' = "selected"
    /\ UNCHANGED <<uploaded_file, df, detected, values, view, loading>>

\* lines 427-486: the three multiselects return what the user has chosen
\* among their options, and the filters are applied to a copy of df.
ApplyFilters ==
    /\ pc = "selected"
    /\ LET g == loc(df, cols.geography_column)
           s == loc(df, cols.strategy_column)
           m == loc(df, cols.main_characteristic_column)
       IN  \E selected_geography \in multiselect(filter_options(values, g)),
              selected_strategy \in multiselect(filter_options(values, s)),
              selected_characteristic \in multiselect(filter_options(values, m)) :
              /\ selected' = [geography |-> selected_geography,
                              strategy |-> selected_strategy,
                              characteristic |-> selected_characteristic]
              /\ filtered_df' =
                     isin_filter(isin_filter(isin_filter(values, g, selected_geography),
                                             s, selected_strategy),
                                 m, selected_characteristic)
    /\ pc' = "filtered"
    /\ UNCHANGED <<uploaded_file, df, cols, detected, selectbox, values, page,
                 loading>>

\* lines 488-773: the fallback to the unfiltered rows, the KPIs and the tabs
\* of geography, strategy and main characteristic
Aggregate ==
    /\ pc = "filtered"
    /\ filtered_df' = fallback(values, filtered_df)
    /\ page' = aggregated(values, filtered_df, df, cols)
    /\ pc' = IF page'.raised # "" THEN "crashed" ELSE "aggregated"
    /\ UNCHANGED <<uploaded_file, df, cols, detected, selectbox, values, selected,
                 loading>>

\* lines 774-1086: the drill-down of tab 4 for one choice of its two
\* selectors, then the additional insights, which add their columns to df,
\* and the portfolio overview
Insights ==
    /\ pc = "aggregated"
    /\ LET t == [df |-> df, values |-> values]
       IN  \E drilldown_type \in {"Geography", "Strategy", "Main Characteristic"} :
           \E drilldown_value \in
                   {drilldown_options(t, cols, drilldown_type)[k] :
                       k \in 1..Len(drilldown_options(t, cols, drilldown_type))} :
           \E out \in {insights(t, cols, tab4(page, t, cols, drilldown_type,
                                              drilldown_value))} :
               /\ df' = out.df
               /\ values' = out.values
               /\ page' = out.page
    /\ pc' = IF page'.raised # "" THEN "crashed" ELSE "done"
    /\ UNCHANGED <<uploaded_file, cols, detected, selectbox, selected, filtered_df,
                 loading>>

(***************************************************************************)
(* Uploaded files.                                                         *)
(***************************************************************************)
\* cells of a column
Num(mean) == [dtype |-> "num", mean |-> mean, all_na |-> FALSE]

Text == [dtype |-> "obj", mean |-> NaN, all_na |-> FALSE]

\* numbers and one malformed cell
Mixed(mean) == [dtype |-> "obj", mean |-> mean, all_na |-> FALSE]

Blank == [dtype |-> "num", mean |-> NaN, all_na |-> TRUE]

Column(name, cells) == [name |-> name, cells |-> cells]

\* The file with the columns f[1], f[2], ...
File(f, reader, rows) ==
    [readable_by |-> reader, has_rows |-> rows,
     columns |-> [i \in 1..Len(f) |-> f[i].name],
     cells |-> [i \in 1..Len(f) |-> f[i].cells]]

\* read_excel hands out pairwise distinct header names (it mangles a repeated
\* header to name.1, name.2).
distinct_names(f) ==
    \A i, j \in 1..Len(f) : i # j => f[i].name # f[j].name

\* main() before the upload is read: a file with 1..MaxCols columns of `pool`.
InitWith(pool, readers, rows) ==
    /\ pc = "start"
    /\ \E n \in 1..MaxCols : \E f \in [1..n -> pool] :
          /\ distinct_names(f)
          /\ \E r \in readers, h \in rows : uploaded_file = File(f, r, h)
    /\ df = NoneDf
    /\ cols = no_columns
    /\ detected = no_columns
    /\ selectbox = no_selectors
    /\ values = <<>>
    /\ selected = no_filters
    /\ filtered_df = <<>>
    /\ page = no_page
    /\ loading = no_loading

(***************************************************************************)
(* Loading: header normalisation and decoding.                             *)
(***************************************************************************)
LoadPool ==
    {Column(n, c) :
        n \in {<<"N","A","V">>, <<"N","A","V"," ">>, <<"N","A","V","_","1">>, <<" ">>,
            <<"C","o","l","u","m","n","_","1">>, <<"G","e","o","g","r","a","p","h","y">>},
        c \in {Num(2000), Text, Blank}}

InitLoad == InitWith(LoadPool, {"openpyxl", "xlrd", "none"}, BOOLEAN)

NextLoad == LoadData

SpecLoad == InitLoad /\ [][NextLoad]_vars

(***************************************************************************)
(* Detection of the NAV column.                                            *)
(***************************************************************************)
NavIls == <<"N","A","V"," ","(","I","L","S",")">>

Amount == <<"A","m","o","u","n","t">>

HebrewNav == <<"he:shin","he:vav","he:vav","he:yod"," ","he:he","he:vav","he:gimel",
        "he:nun_sofit"," ","he:bet","he:shin","he:qof","he:lamed","he:yod","he:mem_sofit">>

Units == <<"U","n","i","t","s">>

Count == <<"C","o","u","n","t">>

NavPool ==
    {Column(NavIls, Num(2000)), Column(NavIls, Text),
     Column(Amount, Num(5000)), Column(Amount, Text),
     Column(<<"N","A","V">>, Num(2000)),
     Column(<<"T","o","t","a","l"," ","V","a","l","u","e">>, Num(500)),
     Column(HebrewNav, Num(2000)), Column(HebrewNav, Mixed(2000)),
     Column(Units, Num(500)), Column(Units, Num(2000)),
     Column(Units, Num(5000)), Column(Units, Text),
     Column(Count, Num(2000)), Column(Count, Num(5000)),
     Column(<<"G","e","o","g","r","a","p","h","y">>, Text)}

NextDetect == LoadData \/ DetectColumns

InitNav == InitWith(NavPool, {"openpyxl"}, {TRUE})

SpecNav == InitNav /\ [][NextDetect]_vars

(***************************************************************************)
(* Detection of the other roles.                                           *)
(***************************************************************************)
FundType == <<"F","u","n","d"," ","T","y","p","e">>

RolesPool ==
    {Column(n, Text) :
        n \in {Strategy, <<"s","t","r","a","t","e","g","y">>, FundType,
               MainCharacteristic, <<"F","e","a","t","u","r","e">>,
                   <<"M","a","i","n"," ","C","h","a","r","a","c","t","e","r","i","s","t","i","c">>,
               <<"G","e","o","g","r","a","p","h","y">>, <<"C","o","u","n","t","r","y">>,
                   <<"C","u","r","r","e","n","c","y">>,
                   <<"V","a","l","u","a","t","i","o","n"," ","A","g","e","n","t">>,
               <<"Y","e","a","r">>, <<"G","P">>, <<"F","u","n","d"," ","N","a","m","e">>,
                   <<"he:mem","he:dalet","he:yod","he:nun","he:he">>, Units}}

InitRoles == InitWith(RolesPool, {"openpyxl"}, {TRUE})

SpecRoles == InitRoles /\ [][NextDetect]_vars

(***************************************************************************)
(* A whole pass.                                                           *)
(***************************************************************************)
PassPool ==
    {Column(NavIls, Num(2000)),
     Column(HebrewNav, Num(2000)), Column(HebrewNav, Mixed(2000)),
     Column(<<"G","e","o","g","r","a","p","h","y">>, Text), Column(<<"G","e","o","g","r",
        "a","p","h","y"," ">>, Text),
     Column(<<"G","e","o","g","r","a","p","h","y","_","1">>, Text),
     Column(Strategy, Text),
     Column(Units, Num(500)), Column(Units, Text)}

Init == InitWith(PassPool, {"openpyxl"}, BOOLEAN)

Next ==
    \/ LoadData
    \/ NoData
    \/ DtypeError
    \/ DetectColumns
    \/ NoNumeric
    \/ SelectColumns

Spec == Init /\ [][Next]_vars

(***************************************************************************)
(* Sheets with rows: the filters and the aggregations.                     *)
(***************************************************************************)
MaxRows == 2

\* main() before the upload is read: a sheet of 1..MaxRows rows of `pool`
\* under the headers `columns`.
InitSheet(columns, pool) ==
    /\ pc = "start"
    /\ \E n \in 1..MaxRows : \E sheet \in [1..n -> pool] :
          /\ values = sheet
          /\ uploaded_file =
                 File([i \in 1..Len(columns) |->
                          Column(columns[i], cells_of(sheet, i))],
                      "openpyxl", TRUE)
    /\ df = NoneDf
    /\ cols = no_columns
    /\ detected = no_columns
    /\ selectbox = no_selectors
    /\ selected = no_filters
    /\ filtered_df = <<>>
    /\ page = no_page
    /\ loading = no_loading

Country == <<"C","o","u","n","t","r","y">>

Israel == text(<<"I","s","r","a","e","l">>)

US == text(<<"U","S">>)

FilterPool ==
    {<<country, nav>> : country \in {Israel, US, nan},
                        nav \in {number(100), number(300)}}

InitFilter == InitSheet(<<Country, NavIls>>, FilterPool)

NextFilter ==
    \/ LoadData
    \/ DetectColumns
    \/ SelectColumns
    \/ ApplyFilters
    \/ Aggregate

SpecFilter == InitFilter /\ [][NextFilter]_vars

Region == <<"R","e","g","i","o","n">>

\* regions by name; a NAV cell is 100, 300 or no number
AggregatePool ==
    {<<region, nav>> : region \in {Israel, US, nan},
                       nav \in {number(100), number(300), text(<<"n","o","n","e">>)}}

\* regions by numeric code; a NAV cell is 0 or 100
CodePool ==
    {<<region, nav>> : region \in {number(1), nan},
                       nav \in {number(0), number(100)}}

\* the NAV under the header 'Amount', and under the header 'NAV (ILS)'
InitAggregate ==
    \/ InitSheet(<<Region, Amount>>, AggregatePool)
    \/ InitSheet(<<Region, NavIls>>, FilterPool)
    \/ InitSheet(<<Region, NavIls>>, CodePool)

NextAggregate ==
    \/ LoadData
    \/ DetectColumns
    \/ SelectColumns
    \/ ApplyFilters
    \/ Aggregate
    \/ Insights

SpecAggregate == InitAggregate /\ [][NextAggregate]_vars

(***************************************************************************)
(* Decoding: sheets in a format of openpyxl, of xlrd, of both and of       *)
(* neither.                                                                *)
(***************************************************************************)
DecodePool == {<<Israel, number(100)>>, <<US, number(300)>>}

InitDecode ==
    /\ pc = "start"
    /\ \E n \in 1..MaxRows : \E sheet \in [1..n -> DecodePool] :
          /\ values = sheet
          /\ \E reader \in {"openpyxl", "xlrd", "both", "none"} :
                uploaded_file =
                    File([i \in 1..2 |->
                             Column(<<Country, NavIls>>[i], cells_of(sheet, i))],
                         reader, TRUE)
    /\ df = NoneDf
    /\ cols = no_columns
    /\ detected = no_columns
    /\ selectbox = no_selectors
    /\ selected = no_filters
    /\ filtered_df = <<>>
    /\ page = no_page
    /\ loading = no_loading

SpecDecode == InitDecode /\ [][NextFilter]_vars

(***************************************************************************)
(* Repeated headers: names that differ in the blanks around them only.     *)
(***************************************************************************)
UniquePool ==
    {Column(n, c) :
        n \in {<<"N","A","V">>, <<"N","A","V"," ">>, <<" ","N","A","V">>,
               <<"N","A","V","_","1">>, <<"U","n","i","t","s">>},
        c \in {Num(2000), Text}}

InitUnique == InitWith(UniquePool, {"openpyxl"}, BOOLEAN)

SpecUnique == InitUnique /\ [][NextLoad]_vars

(***************************************************************************)
(* Properties.                                                             *)
(***************************************************************************)
\* The pass has gone through the column selectors (line 425) and goes on to
\* the filters, the KPIs and the aggregations.
past_selection ==
    pc \notin {"start", "no_table", "loaded", "no_data", "crashed",
               "detected", "no_numeric"}

\* `column` is the first column of d whose lower-cased name contains one of
\* the fragments, or None when d has no such column.
first_containing(d, fragments, column) ==
    IF \A i \in 1..Len(d.columns) : ~any_in(fragments, d.columns[i])
    THEN column = None
    ELSE \E i \in 1..Len(d.columns) :
            /\ d.columns[i] = column
            /\ any_in(fragments, d.columns[i])
            /\ \A j \in 1..(i - 1) : ~any_in(fragments, d.columns[j])

\* No header of d matches a NAV name or a value/amount keyword.
no_nav_header(d) ==
    \A i \in 1..Len(d.columns) :
        ~any_in(nav_names, d.columns[i]) /\ ~any_in(value_names, d.columns[i])

\* Column i of d is numeric with a mean above 1000.
large(d, i) == d.cells[i].dtype = "num" /\ d.cells[i].mean > 1000

\* C1: after load_data's header normalisation the column names of the table
\* are pairwise distinct, for every sequence of input header names.
\* (Violated: "NAV", "NAV ", "NAV_1" is loaded as NAV, NAV_1, NAV_1.)
C1_ColumnsDistinct ==
    pc = "loaded" =>
        \A i, j \in 1..Len(df.columns) : i # j => df.columns[i] # df.columns[j]

\* C2: when "NAV (ILS)" is a header and the other headers match the NAV rules
\* by keyword at most (such as "Amount"), detection maps nav to "NAV (ILS)",
\* wherever in column order it stands.
C2_NavIlsSelected ==
    (/\ pc = "detected"
     /\ in_columns(NavIls, df)
     /\ \A i \in 1..Len(df.columns) :
            df.columns[i] # NavIls => ~is_nav_ils(df.columns[i]))
    => detected.nav_column = NavIls

\* C2, reached: a numeric "Amount" column stands first, "NAV (ILS)" later, and
\* nav is mapped to "NAV (ILS)".
C2_Witness ==
    /\ pc = "detected"
    /\ df.columns[1] = Amount
    /\ df.cells[1].dtype = "num"
    /\ \E i \in 2..Len(df.columns) : df.columns[i] = NavIls
    /\ detected.nav_column = NavIls

\* C3 as stated: a header equal to 'Strategy' (to the Hebrew name of line
\* 323) ignoring letter case is selected in preference to keyword-only
\* headers.
\* (Violated: "Fund Type", "strategy" maps strategy to "Fund Type".)
C3_ExactIgnoringCase ==
    pc = "detected" =>
        /\ (\E i \in 1..Len(df.columns) : lower(df.columns[i]) = lower(Strategy))
               => lower(detected.strategy_column) = lower(Strategy)
        /\ (\E i \in 1..Len(df.columns) :
                lower(df.columns[i]) = lower(MainCharacteristic))
               => lower(detected.main_characteristic_column)
                      = lower(MainCharacteristic)

\* C3, amended: a header equal to 'Strategy' (to the Hebrew name of line
\* 323) in the same letter case is selected in preference to every
\* keyword-only header, also to one that stands earlier in column order.
C3_ExactNameFirst ==
    pc = "detected" =>
        /\ in_columns(Strategy, df) => detected.strategy_column = Strategy
        /\ in_columns(MainCharacteristic, df)
               => detected.main_characteristic_column = MainCharacteristic

\* C3, reached: the keyword-only "Fund Type" stands first, "Strategy" later,
\* and strategy is mapped to "Strategy".
C3_Witness ==
    /\ pc = "detected"
    /\ df.columns[1] = FundType
    /\ \E i \in 2..Len(df.columns) : df.columns[i] = Strategy
    /\ detected.strategy_column = Strategy

\* C4: a role resolved by keyword is mapped to the first column in column
\* order whose lower-cased name contains one of the role's fragments, and is
\* left unmapped when no column contains any; strategy and characteristic are
\* resolved so when no header has their exact name.
C4_KeywordFirstMatch ==
    pc = "detected" =>
        /\ first_containing(df, geography_names, detected.geography_column)
        /\ first_containing(df, fund_names, detected.fund_name_column)
        /\ first_containing(df, currency_names, detected.currency_column)
        /\ first_containing(df, valuation_names, detected.valuation_agent_column)
        /\ first_containing(df, year_names, detected.year_column)
        /\ first_containing(df, gp_names, detected.gp_column)
        /\ ~in_columns(Strategy, df)
               => first_containing(df, strategy_names, detected.strategy_column)
        /\ ~in_columns(MainCharacteristic, df)
               => first_containing(df, characteristic_names,
                                   detected.main_characteristic_column)

\* C4, reached: two columns contain a geography fragment, geography is mapped
\* to the earlier one, and currency, matched by no column, is unmapped.
C4_Witness ==
    /\ pc = "detected"
    /\ \E i, j \in 1..Len(df.columns) :
          /\ i < j
          /\ any_in(geography_names, df.columns[i])
          /\ any_in(geography_names, df.columns[j])
          /\ detected.geography_column = df.columns[i]
    /\ detected.currency_column = None

\* C5 as stated: when no header matches a NAV name or keyword rule, nav falls
\* back to the numeric column with the largest mean.
\* (Violated: Units of mean 2000 before Count of mean 5000 maps nav to Units,
\* and Units of mean 500 alone leaves nav unmapped.)
C5_LargestMean ==
    (/\ pc = "detected"
     /\ no_nav_header(df)
     /\ \E i \in 1..Len(df.columns) : df.cells[i].dtype = "num")
    => \E i \in 1..Len(df.columns) :
          /\ df.cells[i].dtype = "num"
          /\ detected.nav_column = df.columns[i]
          /\ \A j \in 1..Len(df.columns) :
                df.cells[j].dtype = "num" => df.cells[j].mean <= df.cells[i].mean

\* C5, amended: when no header matches a NAV name or keyword rule, nav falls
\* back to the first numeric column in column order whose mean exceeds 1000,
\* and is left unmapped when no numeric column has such a mean.
C5_FirstLargeMean ==
    (pc = "detected" /\ no_nav_header(df)) =>
        IF \E i \in 1..Len(df.columns) : large(df, i)
        THEN \E i \in 1..Len(df.columns) :
                /\ large(df, i)
                /\ \A j \in 1..(i - 1) : ~large(df, j)
                /\ detected.nav_column = df.columns[i]
        ELSE detected.nav_column = None

\* C5, reached: no NAV header, a numeric column of mean above 1000 before one
\* of a larger mean, and nav mapped to the earlier.
C5_Witness ==
    /\ pc = "detected"
    /\ no_nav_header(df)
    /\ \E i, j \in 1..Len(df.columns) :
          /\ i < j
          /\ large(df, i)
          /\ large(df, j)
          /\ df.cells[j].mean > df.cells[i].mean
          /\ detected.nav_column = df.columns[i]

\* C7: in a pass that goes on to the KPIs, nav is mapped to exactly one
\* physical column and that column is numeric, whatever detection proposed.
C7_NavOneNumericColumn ==
    past_selection =>
        /\ occurrences(df.columns, cols.nav_column) = 1
        /\ \A i \in 1..Len(df.columns) :
              df.columns[i] = cols.nav_column => df.cells[i].dtype = "num"

\* C7, reached: detection proposed a column that is not numeric, and the pass
\* goes on with a numeric one.
C7_Witness ==
    /\ pc = "selected"
    /\ \E i \in 1..Len(df.columns) :
          df.columns[i] = detected.nav_column /\ df.cells[i].dtype # "num"
    /\ \E i \in 1..Len(df.columns) :
          df.columns[i] = cols.nav_column /\ df.cells[i].dtype = "num"

\* C8 as stated: the selector of every role (nav, geography, strategy,
\* characteristic) offers the full list of the table's columns.
\* (Violated: the nav selector leaves out every column that is not numeric.)
C8_EverySelectorAllColumns ==
    past_selection =>
        \A r \in {"nav", "geography", "strategy", "characteristic"} :
            selectbox[r].options = df.columns

\* C8, amended: in a pass that reaches the selectors, those of geography,
\* strategy and characteristic offer the full list of the table's columns,
\* and the nav selector offers exactly the numeric columns.
C8_SelectorOptions ==
    past_selection =>
        /\ \A r \in {"geography", "strategy", "characteristic"} :
              selectbox[r].options = df.columns
        /\ \A i \in 1..Len(df.columns) :
              in_options(df.columns[i], selectbox.nav.options)
                  <=> df.cells[i].dtype = "num"
        /\ \A k \in 1..Len(selectbox.nav.options) :
              in_columns(selectbox.nav.options[k], df)

\* C8, reached: geography was detected, the user has chosen another column for
\* it, and the nav selector does not offer every column.
C8_Witness ==
    /\ pc = "selected"
    /\ detected.geography_column # None
    /\ cols.geography_column # detected.geography_column
    /\ selectbox.nav.options # df.columns

\* C9: the default of each selector is the column detection chose for its
\* role, and the first option when detection left the role unmapped.
\* (Violated: the Hebrew NAV header with a malformed cell is detected as nav,
\* is not numeric, and the nav selector defaults to the first numeric column.)
C9_DefaultIsDetected ==
    past_selection =>
        /\ default_option(selectbox.nav) =
              IF detected.nav_column # None THEN detected.nav_column
              ELSE selectbox.nav.options[1]
        /\ default_option(selectbox.geography) =
              IF detected.geography_column # None THEN detected.geography_column
              ELSE selectbox.geography.options[1]
        /\ default_option(selectbox.strategy) =
              IF detected.strategy_column # None THEN detected.strategy_column
              ELSE selectbox.strategy.options[1]
        /\ default_option(selectbox.characteristic) =
              IF detected.main_characteristic_column # None
              THEN detected.main_characteristic_column
              ELSE selectbox.characteristic.options[1]

passes(r, selection, column) ==
    \/ selection = {}
    \/ All \in selection
    \/ values[r][loc(df, column)] \in selection

\* The rows of df that pass the filters of the three roles.
matching ==
    {r \in 1..Len(values) :
        /\ passes(r, selected.geography, cols.geography_column)
        /\ passes(r, selected.strategy, cols.strategy_column)
        /\ passes(r, selected.characteristic, cols.main_characteristic_column)}

\* C11: filtering keeps exactly the rows of df that, for each role whose
\* selection is not empty and does not hold "All", have the value of the
\* role's column inside the selection (all roles at once, any member of a
\* selection), in the order of df; an empty selection and one that holds
\* "All" remove no row.
C11_FilterKeepsMatching ==
    pc = "filtered" =>
        /\ Len(filtered_df) = Cardinality(matching)
        /\ \A k \in 1..Len(filtered_df) :
              \E r \in matching :
                  /\ Cardinality({q \in matching : q < r}) = k - 1
                  /\ filtered_df[k] = values[r]

\* C11, reached: geography is filtered by a selection of two values, strategy
\* by another selection, the characteristic selection is empty, and some rows
\* are kept while others are removed.
C11_Witness ==
    /\ pc = "filtered"
    /\ Cardinality(selected.geography) = 2
    /\ All \notin selected.geography
    /\ selected.strategy # {}
    /\ All \notin selected.strategy
    /\ selected.strategy # selected.geography
    /\ selected.characteristic = {}
    /\ filtered_df # <<>>
    /\ Len(filtered_df) < Len(values)

\* C12: with the selection ["All"] in every role the filtered table is equal
\* to df: the same rows in the same order.
C12_AllKeepsTable ==
    (pc = "filtered" /\ selected = no_filters) => filtered_df = values

\* C12, reached: two different rows, every selection is ["All"], and the
\* filtered table has the two rows in the order of df.
C12_Witness ==
    /\ pc = "filtered"
    /\ selected = no_filters
    /\ Len(values) = 2
    /\ values[1] # values[2]
    /\ filtered_df = values

\* C13: no step of a dashboard pass mutates the loaded table in place: from
\* the call of create_dashboard to the end of the pass every step leaves df
\* with the columns and the rows it had.
\* (Violated: line 238 rewrites the cells of the object columns in df itself,
\* and line 955 adds the column Israel_Flag to df.)
C13_NoStepMutates ==
    [][(pc \in {"loaded", "detected", "selected", "filtered", "aggregated"})
          => (df'.columns = df.columns /\ values' = values)]_vars


\* C14: when the filters exclude every row, the step that computes the KPIs
\* shows the warning and takes the KPIs and the aggregations of the three
\* tabs from the unfiltered table; otherwise there is no warning and the
\* filtered rows are kept.  The table that is aggregated is never empty.
C14_EmptyFilterFallsBack ==
    [][(pc = "filtered" /\ pc' # "filtered") =>
         LET nav == loc(df, cols.nav_column)
             geo == loc(df, cols.geography_column)
             p == page'
         IN  /\ filtered_df' # <<>>
             /\ p.warning = (filtered_df = <<>>)
             /\ (filtered_df # <<>>) => (filtered_df' = filtered_df)
             /\ (filtered_df = <<>>) =>
                   /\ filtered_df' = values
                   /\ p.total_nav = sum(series(values, nav))
                   /\ p.total_investments = Len(values)
                   /\ (p.raised = "") =>
                         /\ p.geo_data = sort_values(groupby_sum(values, geo, nav))
                         /\ p.strategy_data =
                               sort_values(groupby_sum(values,
                                   loc(df, cols.strategy_column), nav))
                         /\ (~p.error) =>
                               (\A k \in 1..Len(p.merged_data) :
                                   p.merged_data[k].count =
                                       Len(group(values,
                                           loc(df, cols.main_characteristic_column),
                                           p.merged_data[k].key)))]_vars

\* The filters have excluded every row, and the tabs show the whole table
\* under the warning.
C14_Witness ==
    /\ pc = "aggregated"
    /\ page.warning
    /\ filtered_df = values
    /\ Len(values) = 2
    /\ page.total_investments = 2
    /\ Len(page.geo_data) = 2

\* C15: aggregating the rows shown by the main characteristic (another column
\* than the NAV) yields the table of tab 3: one entry per distinct value of
\* the characteristic, with the sum of the NAV of its rows, the number of its
\* rows, the average sum / count and the percentage sum / total NAV * 100
\* (the value line 722 then formats), ordered by descending sum; the rows
\* (Israel, 100) and (US, 300) give (US, 300, 1, 300, 75) and then
\* (Israel, 100, 1, 100, 25).
\* (Violated: with the NAV under the header 'NAV (ILS)' lines 720-722 raise,
\* and tab 3 shows an error instead of the table.)
C15_OneEntryPerCategory ==
    (/\ pc \in {"aggregated", "done"}
     /\ cols.main_characteristic_column # cols.nav_column) =>
        LET m == page.merged_data
            key == loc(df, cols.main_characteristic_column)
            nav == loc(df, cols.nav_column)
            present == {filtered_df[r][key] : r \in 1..Len(filtered_df)} \ {nan}
        IN  /\ ~page.error
            /\ {m[k].key : k \in 1..Len(m)} = present
            /\ Len(m) = Cardinality(present)
            /\ \A k \in 1..Len(m) :
                  LET of_key == SelectSeq(filtered_df,
                                          LAMBDA row : row[key] = m[k].key)
                  IN  /\ m[k].nav = sum(series(of_key, nav))
                      /\ m[k].count = Len(of_key)
                      /\ m[k].average = truediv(m[k].nav, m[k].count)
                      /\ m[k].pct = truediv(m[k].nav * 100, page.total_nav)
            /\ \A k \in 1..(Len(m) - 1) : m[k].nav >= m[k + 1].nav
            /\ (filtered_df = <<<<Israel, number(100)>>, <<US, number(300)>>>>) =>
                  m = <<[key |-> US, nav |-> 300, count |-> 1,
                         average |-> [num |-> 300, den |-> 1],
                         pct |-> [num |-> 75, den |-> 1]],
                        [key |-> Israel, nav |-> 100, count |-> 1,
                         average |-> [num |-> 100, den |-> 1],
                         pct |-> [num |-> 25, den |-> 1]]>>

\* C16: the rows without a valid NAV are in neither the sums nor the counts:
\* the number of investments and the count of every category of tab 3 are
\* the numbers of rows with a NAV.
\* (Violated: line 499 counts len(filtered_df) and line 666 the size of each
\* group, the rows without a NAV included.)
C16_CountsOnlyValidNav ==
    (pc \in {"aggregated", "done"}) =>
        LET nav == loc(df, cols.nav_column)
            key == loc(df, cols.main_characteristic_column)
            valid == SelectSeq(filtered_df, LAMBDA row : ~isna(row[nav]))
        IN  /\ page.total_nav = sum(series(valid, nav))
            /\ page.total_investments = Len(valid)
            /\ \A k \in 1..Len(page.merged_data) :
                  page.merged_data[k].count =
                      Len(group(valid, key, page.merged_data[k].key))

\* the sum of the percentages of the entries of tab 3
RECURSIVE sum_pct(_)
sum_pct(data) ==
    IF data = <<>> THEN zero ELSE add(Head(data).pct, sum_pct(Tail(data)))

\* C17: with a total NAV above 0 and no row shown without a value in the
\* column of a role, the sums of the categories of that role add up to the
\* total NAV, and the percentages of tab 3 add up to 100.
C17_PercentagesSumTo100 ==
    (pc \in {"aggregated", "done"} /\ page.total_nav > 0) =>
        LET complete(column) ==
                \A r \in 1..Len(filtered_df) : ~isna(filtered_df[r][loc(df, column)])
            total(data) == sum([k \in 1..Len(data) |-> number(data[k].nav)])
        IN  /\ complete(cols.geography_column) =>
                  total(page.geo_data) = page.total_nav
            /\ complete(cols.strategy_column) =>
                  total(page.strategy_data) = page.total_nav
            /\ (complete(cols.main_characteristic_column) /\ ~page.error) =>
                  /\ total(page.merged_data) = page.total_nav
                  /\ sum_pct(page.merged_data) = [num |-> 100, den |-> 1]

\* Two rows of two regions with a NAV of 300 and of 100: the percentages of
\* tab 3 are 75 and 25.
C17_Witness ==
    /\ pc = "aggregated"
    /\ ~page.error
    /\ page.total_nav = 400
    /\ \A r \in 1..Len(filtered_df) : ~isna(filtered_df[r][1])
    /\ Len(page.merged_data) = 2
    /\ page.merged_data[1].pct = [num |-> 75, den |-> 1]
    /\ page.merged_data[2].pct = [num |-> 25, den |-> 1]

\* C18: with a total NAV of 0, in a pass whose roles are other columns than
\* the NAV, nothing raises and every ratio of the pass is 0: the average
\* investment, the percentage of the top geography, strategy and
\* characteristic, every percentage of tab 3, the percentage of the
\* drill-down subtotal, the Israel percentage, the two top concentrations and
\* the two HHI.
\* (Violated: lines 586, 722, 1058, 1072 and 1073 divide by total_nav without
\* a guard and yield nan, and line 585 raises on an empty geo_data.)
C18_RatiosAreZero ==
    (/\ pc \in {"aggregated", "done", "crashed"}
     /\ page.total_nav = 0
     /\ page.raised # "ValueError") =>
        /\ page.raised = ""
        /\ page.avg_investment = zero
        /\ page.top_geography_pct = zero
        /\ page.top_strategy_pct = zero
        /\ page.top_char_pct = zero
        /\ \A k \in 1..Len(page.merged_data) : page.merged_data[k].pct = zero
        /\ page.subtotal_pct = zero
        /\ page.israel_pct = zero
        /\ page.top_geo_concentration = zero
        /\ page.top_strategy_concentration = zero
        /\ page.geo_hhi = zero
        /\ page.strategy_hhi = zero

\* C19: with a total NAV above 0, the concentration index of the geography and
\* of the strategy is the sum over the categories of
\* (sum of the category / total NAV)^2, times 10000; it lies within 0..10000,
\* is 10000 when all rows shown fall in one category and 5000 for two
\* categories of equal sums.
C19_ConcentrationIndex ==
    (pc = "done" /\ page.total_nav > 0) =>
        LET T == page.total_nav
            index_of(data) ==
                mul(truediv(sum([k \in 1..Len(data) |->
                                    number(data[k].nav * data[k].nav)]), T * T),
                    truediv(10000, 1))
            within(h) == h.den > 0 /\ 0 <= h.num /\ h.num <= 10000 * h.den
            complete(column) ==
                \A r \in 1..Len(filtered_df) : ~isna(filtered_df[r][loc(df, column)])
            settled(h, data, column) ==
                /\ h = index_of(data)
                /\ within(h)
                /\ (Len(data) = 1 /\ complete(column)) => h = [num |-> 10000, den |-> 1]
                /\ (Len(data) = 2 /\ data[1].nav = data[2].nav /\ complete(column))
                       => h = [num |-> 5000, den |-> 1]
        IN  /\ settled(page.geo_hhi, page.geo_data, cols.geography_column)
            /\ settled(page.strategy_hhi, page.strategy_data, cols.strategy_column)

\* Two regions of equal sums: the index of the geography is 5000.
C19_Witness ==
    /\ pc = "done"
    /\ Len(page.geo_data) = 2
    /\ page.geo_data[1].nav = page.geo_data[2].nav
    /\ page.total_nav = 2 * page.geo_data[1].nav
    /\ page.total_nav > 0
    /\ page.geo_hhi = [num |-> 5000, den |-> 1]
    /\ page.strategy_hhi = [num |-> 5000, den |-> 1]

\* C20: the rows shown without a category value are treated one way for every
\* role: either they form a category of their own in every aggregation, or no
\* aggregation has a category for them and the total NAV the percentages are
\* taken of is without them.
\* (Violated: the missing cells of a text column become the category 'nan' at
\* line 238, while groupby drops the rows without a value in a numeric
\* category column from the sums and line 498 keeps them in total_nav.)
C20_OnePolicyForMissing ==
    (pc \in {"aggregated", "done"}) =>
        LET missing(c) == isna(c) \/ c = text(<<"n","a","n">>)
            total(data) == sum([k \in 1..Len(data) |-> number(data[k].nav)])
            own_bucket(column, data) ==
                \A r \in 1..Len(filtered_df) :
                    missing(filtered_df[r][loc(df, column)]) =>
                        \E k \in 1..Len(data) :
                            data[k].key = filtered_df[r][loc(df, column)]
            dropped(column, data) ==
                /\ \A k \in 1..Len(data) : ~missing(data[k].key)
                /\ total(data) = page.total_nav
            shown == IF page.error THEN page.geo_data ELSE page.merged_data
            shown_by == IF page.error THEN cols.geography_column
                        ELSE cols.main_characteristic_column
        IN  \/ /\ own_bucket(cols.geography_column, page.geo_data)
               /\ own_bucket(cols.strategy_column, page.strategy_data)
               /\ own_bucket(shown_by, shown)
            \/ /\ dropped(cols.geography_column, page.geo_data)
               /\ dropped(cols.strategy_column, page.strategy_data)
               /\ dropped(shown_by, shown)

\* C21: openpyxl is tried first and xlrd only after openpyxl has failed.  A
\* file that neither decodes ends the run with the two engines' error
\* messages and the "Failed to read" message and without a table: no column
\* is resolved, nothing is filtered or aggregated.  Otherwise nothing of the
\* errors is shown and the table of the pass is the sheet as the first
\* engine that succeeded decoded it.
C21_FirstDecoderOrNoTable ==
    (pc # "start") =>
        LET by == uploaded_file.readable_by
            failed == <<"Failed to read the Excel file with any available engine.">>
        IN  /\ (by = "none") =>
                  /\ pc = "no_table"
                  /\ df = NoneDf
                  /\ loading.spinner = <<"openpyxl", "xlrd">>
                  /\ loading.error = <<<<"Error with", "openpyxl">>,
                                       <<"Error with", "xlrd">>, failed>>
                  /\ cols = no_columns /\ detected = no_columns
                  /\ selectbox = no_selectors
                  /\ selected = no_filters /\ filtered_df = <<>>
                  /\ page = no_page
            /\ (by # "none") =>
                  /\ pc # "no_table"
                  /\ ~df.none
                  /\ loading.error = <<>>
                  /\ loading.spinner = IF by = "xlrd" THEN <<"openpyxl", "xlrd">>
                                       ELSE <<"openpyxl">>
                  /\ df.columns = uploaded_file.columns
                  /\ Len(values) \in 1..MaxRows
                  /\ \A r \in 1..Len(values) : values[r] \in DecodePool

\* A file that no engine decodes: the run ends after load_data.
C21_Witness ==
    /\ uploaded_file.readable_by = "none"
    /\ pc = "no_table"
    /\ Len(loading.error) = 3
    /\ df.none

\* C22: in every column whose header the resolver recognises as a NAV or
\* value column, in English or in Hebrew, load_data leaves numbers and
\* missing values only (a numeric column), and the column detection maps to
\* nav is among the columns the NAV selector offers.
\* (Violated: line 213 coerces the headers with nav, value or amount only; a
\* Hebrew NAV column with a malformed cell stays an object column, which the
\* NAV selector does not offer.)
C22_MalformedNavCoerced ==
    (pc \notin {"start", "no_table", "no_data", "crashed"}) =>
        /\ \A i \in 1..Len(df.columns) :
              (any_in(nav_names, df.columns[i]) \/ any_in(value_names, df.columns[i]))
                  => is_numeric_dtype(df, i)
        /\ (past_selection /\ detected.nav_column # None) =>
              \E k \in 1..Len(selectbox.nav.options) :
                  selectbox.nav.options[k] = detected.nav_column

\* C23: with a total NAV above 0 (the NAV cells are not negative), every
\* percentage of the portfolio that a pass shows lies within 0..100: of the
\* top geography, the top strategy and the top characteristic, of the
\* drill-down subtotal and of Israel, whatever the filters and the drill-down
\* choice.
\* (Violated: tab 4 and the Israel insight sum the rows of df, the unfiltered
\* table, and divide by the total NAV of the filtered rows.)
C23_SharesWithin100 ==
    (pc = "done" /\ page.total_nav > 0) =>
        LET within(x) == x.den > 0 /\ 0 <= x.num /\ x.num <= 100 * x.den
        IN  /\ within(page.top_geography_pct)
            /\ within(page.top_strategy_pct)
            /\ within(page.top_char_pct)
            /\ within(page.subtotal_pct)
            /\ within(page.israel_pct)

\* C24: ensure_unique_columns keeps the number and the order of the columns;
\* a name that occurs once and the first occurrence of a repeated name are
\* kept, and the k-th further occurrence of a name becomes name_k; without a
\* repeated name, and on a table without rows, nothing changes.
C24_FurtherOccurrencesNumbered ==
    (pc = "loaded") =>
        LET before == named(stripped(uploaded_file.columns))
            after == df.columns
            earlier(i) == Cardinality({j \in 1..(i - 1) : before[j] = before[i]})
        IN  /\ uploaded_file.has_rows =>
                  /\ Len(after) = Len(before)
                  /\ \A i \in 1..Len(before) :
                        after[i] = IF earlier(i) = 0 THEN before[i]
                                   ELSE suffixed(before[i], earlier(i))
                  /\ (~has_duplicates(before)) => after = before
            /\ (~uploaded_file.has_rows) => normalised(uploaded_file) = before

\* Three headers that are NAV once stripped: the table has NAV, NAV_1, NAV_2.
C24_Witness ==
    /\ pc = "loaded"
    /\ uploaded_file.has_rows
    /\ Len(uploaded_file.columns) = 3
    /\ df.columns = <<<<"N","A","V">>, <<"N","A","V","_","1">>, <<"N","A","V","_","2">>>>
===========================================================================
